---- MODULE Spec2Model ----
(***************************************************************************)
(* Model of generateGlassMaps (src/flat.tsx:93-271, duplicated verbatim in *)
(* src/unnamed/part_000:93-271): the surface map synthesizer, and of its   *)
(* hosts: GlassBubble (src/flat.tsx:771-941 and                            *)
(* src/components/Package/GlassBubble.tsx) and the window and log lists of *)
(* MetaGlassApp (src/flat.tsx:560-628).                                    *)
(*                                                                         *)
(* Real numbers are fixed-point integers with unit Scale (1.0 = Scale).    *)
(* Pixel coordinates, width and height are plain integers.                 *)
(***************************************************************************)
EXTENDS Integers, Sequences, FiniteSets, TLC

VARIABLES
    width, height, radius, bezel, shape, profile, tension, warp,  \* arguments
    pc,          \* position in the body of generateGlassMaps
    canvas,      \* the canvas element: <<>> before creation, else <<w, h>>
    ctx,         \* canvas.getContext('2d'): "unset", "2d" or "null"
    perm,        \* permutation table: <<>> before allocation
    heightMap,   \* Float32Array(size): <<>> before allocation
    tempMap,     \* Float32Array(size): <<>> before allocation
    data,        \* imgData.data: <<>> before createImageData
    x, y,        \* the loop indices of the running pixel loop
    dist,        \* the local `dist` of the last profiled pixel
    surfaceUrl,  \* the returned surfaceUrl: "pending" until the call returns
    encoded,     \* the pixel buffer handed to putImageData: <<>> before
    acc,         \* the buffer accesses of the last loop iteration
    dirty,       \* indices the running erosion pass has written so far
    writes,      \* number of element writes per buffer
    lastDen,     \* denominators of the divisions of the last iteration
    profiled,    \* the height field as HeightProfiler left it
    prev,        \* arguments and result of the preceding call, if any
    mounted,     \* GlassBubble: the component is mounted
    props,       \* GlassBubble: the props of the last render
    dimensions,  \* GlassBubble: the state `dimensions`
    mapUrl,      \* GlassBubble: the state `mapUrl`
    timers,      \* GlassBubble: the pending setTimeout callbacks
    cleanup,     \* GlassBubble: the timer the effect's cleanup clears, 0 if none
    changes,     \* GlassBubble: number of renders with a new tuple so far
    burst,       \* Package/GlassBubble: tuple changes since the last quiet period
    invoked,     \* Package/GlassBubble: generator calls since the last quiet period
    windows,     \* MetaGlassApp: the state `windows`
    logs,        \* MetaGlassApp: the state `logs`
    added,       \* MetaGlassApp: number of addLog calls so far
    called,      \* MetaGlassApp: the last window call, [op, id]
    before       \* MetaGlassApp: `windows` before the last window call

args == <<width, height, radius, bezel, shape, profile, tension, warp>>
bufs == <<canvas, ctx, perm, heightMap, tempMap, data>>
ghost == <<dist, acc, dirty, writes, lastDen, profiled>>
call == <<bufs, ghost, pc, x, y, surfaceUrl, encoded, prev>>
bubble == <<mounted, props, dimensions, mapUrl, timers, cleanup, changes>>
app == <<windows, logs, added, called, before>>
host == <<bubble, burst, invoked, app>>
vars == <<args, bufs, ghost, pc, x, y, surfaceUrl, encoded, prev, host>>

----------------------------------------------------------------------------
(* Bounds of the model *)

MaxDim == 5          \* the largest width and height of a call
NumSeeds == 2        \* number of distinct random permutation tables

(* Fixed-point unit: 1.0 = Scale *)
Scale == 1000

(* NaN, as produced by 0/0; outside the range of every number of the model *)
NaN == -(Scale * Scale * Scale)

----------------------------------------------------------------------------
(* Arithmetic of the model's reals *)

Abs(a) == IF a < 0 THEN -a ELSE a
Min(a, b) == IF a < b THEN a ELSE b
Max(a, b) == IF a > b THEN a ELSE b

(* a * b, sign-symmetric rounding *)
Mul(a, b) ==
    LET p == a * b
    IN  IF p < 0 THEN -((-p) \div Scale) ELSE p \div Scale

(* a / b for b # 0, sign-symmetric rounding *)
Div(a, b) ==
    LET n == Abs(a) * Scale
        q == n \div Abs(b)
    IN  IF (a < 0) = (b < 0) THEN q ELSE -q

RECURSIVE SqrtSearch(_, _, _)
SqrtSearch(n, lo, hi) ==
    IF lo >= hi THEN lo
    ELSE LET mid == (lo + hi + 1) \div 2
         IN  IF mid * mid <= n THEN SqrtSearch(n, mid, hi)
             ELSE SqrtSearch(n, lo, mid - 1)

(* Math.sqrt for v >= 0 *)
Sqrt(v) == SqrtSearch(v * Scale, 0, 46340)

(* Math.pow(v, 4) and Math.pow(v, 0.25) *)
Pow4(v) == Mul(Mul(v, v), Mul(v, v))
PowQuarter(v) == Sqrt(Sqrt(v))

(* Math.floor and Math.ceil, to an integer *)
Floor(v) == v \div Scale
Ceil(v) == -((-v) \div Scale)

(* Math.max(0, Math.min(1, v)); NaN propagates *)
Clamp01(v) == IF v = NaN THEN NaN ELSE Max(0, Min(Scale, v))

(* Store of a real v into a Uint8ClampedArray: round half to even, clamp,  *)
(* NaN becomes 0 *)
ToUint8Clamped(v) ==
    IF v = NaN THEN 0
    ELSE IF v <= 0 THEN 0
    ELSE IF v >= 255 * Scale THEN 255
    ELSE LET q == v \div Scale
             f == v % Scale
         IN  IF 2 * f > Scale THEN q + 1
             ELSE IF 2 * f < Scale THEN q
             ELSE IF q % 2 = 0 THEN q ELSE q + 1

----------------------------------------------------------------------------
(* Constants of generateGlassMaps *)

size == width * height
cx == (width * Scale) \div 2
cy == (height * Scale) \div 2
(* Variant: the radius is not clamped *)
rUnclamped == radius
r == Min(radius, (Min(width, height) * Scale) \div 2)
(* Variant: the half-extent ignores the corner radius *)
bxNoRadius == cx
bx == cx - r
by == cy - r

warpScale == (2 * Scale) \div 100
isLiquid == profile = "liquid"
warpAmp == warp * (IF isLiquid THEN 15 ELSE 8)
steepness == 4 * Scale

(* One outcome of filling perm with Math.floor(Math.random() * 255) *)
RandomTable(s) ==
    [i \in 0..511 |-> ((i + 3) * (i + 7 + 5 * s) * (11 + 2 * s) + 97 * s) % 255]

PermTables == {RandomTable(s) : s \in 0..(NumSeeds - 1)}

----------------------------------------------------------------------------
(* Noise generator *)

fade(t) == Mul(Mul(Mul(t, t), t), Mul(t, 6 * t - 15 * Scale) + 10 * Scale)
lerp(t, a, b) == a + Mul(t, b - a)

grad(hash, gx, gy) ==
    LET h == hash % 16
        u == IF h < 8 THEN gx ELSE gy
        v == IF h < 4 THEN gy ELSE IF h = 12 \/ h = 14 THEN gx ELSE 0
    IN  (IF h % 2 = 0 THEN u ELSE -u) + (IF (h \div 2) % 2 = 0 THEN v ELSE -v)

(* Variant: Y is not masked to 0 .. 255 *)
noiseIdxUnmasked(sx, sy) ==
    LET X == Floor(sx) % 256
        Y == Floor(sy)
        A == perm[X] + Y
        B == perm[X + 1] + Y
    IN  <<X, X + 1, A, B, A + 1, B + 1>>

(* The six perm indices noise2d reads at the sample point (sx, sy) *)
noiseIdx(sx, sy) ==
    LET X == Floor(sx) % 256
        Y == Floor(sy) % 256
        A == perm[X] + Y
        B == perm[X + 1] + Y
    IN  <<X, X + 1, A, B, A + 1, B + 1>>

noise2d(sx, sy) ==
    LET X == Floor(sx) % 256
        Y == Floor(sy) % 256
        xf == sx - Floor(sx) * Scale
        yf == sy - Floor(sy) * Scale
        u == fade(xf)
        v == fade(yf)
        A == perm[X] + Y
        B == perm[X + 1] + Y
    IN  lerp(v, lerp(u, grad(perm[A], xf, yf), grad(perm[B], xf - Scale, yf)),
                lerp(u, grad(perm[A + 1], xf, yf - Scale),
                        grad(perm[B + 1], xf - Scale, yf - Scale)))

----------------------------------------------------------------------------
(* Stage 1 and 2: geometry and turbulence, one pixel (px, py) *)

(* The noise displacement n * warpAmp added to both tx and ty *)
turbulence(px, py) ==
    IF warp > 0 \/ isLiquid
    THEN Mul(noise2d(px * warpScale, py * warpScale), warpAmp)
    ELSE 0

(* Variant: the squircle distance is scaled by the corner radius *)
squircleDistByRadius(tx, ty) ==
    LET nx == Div(tx - cx, (width * Scale) \div 2)
        ny == Div(ty - cy, (height * Scale) \div 2)
        val == Pow4(Abs(nx)) + Pow4(Abs(ny))
    IN  Mul(PowQuarter(val) - Scale, r)

(* Variant: the squircle distance is scaled by min(width, height) *)
squircleDistFullExtent(tx, ty) ==
    LET nx == Div(tx - cx, (width * Scale) \div 2)
        ny == Div(ty - cy, (height * Scale) \div 2)
        val == Pow4(Abs(nx)) + Pow4(Abs(ny))
    IN  Mul(PowQuarter(val) - Scale, Min(width, height) * Scale)

(* Squircle SDF approximation (superellipse n = 4) *)
squircleDist(tx, ty) ==
    LET nx == Div(tx - cx, (width * Scale) \div 2)
        ny == Div(ty - cy, (height * Scale) \div 2)
        val == Pow4(Abs(nx)) + Pow4(Abs(ny))
    IN  Mul(PowQuarter(val) - Scale, (Min(width, height) * Scale) \div 2)

(* Rounded box SDF *)
rectDist(tx, ty) ==
    LET dx == Abs(tx - cx) - bx
        dy == Abs(ty - cy) - by
        dOuter == Sqrt(Mul(Max(dx, 0), Max(dx, 0)) + Mul(Max(dy, 0), Max(dy, 0)))
        dInner == Min(Max(dx, dy), 0)
    IN  dOuter + dInner - r

signedDist(px, py) ==
    LET tx == px * Scale + turbulence(px, py)
        ty == py * Scale + turbulence(px, py)
    IN  IF shape = "squircle" THEN squircleDist(tx, ty) ELSE rectDist(tx, ty)

(* Variant: the outside threshold is 0 *)
isOutsideAtZero(d) == d > 0

(* Variant: the plateau grows with the bezel, up to dist = bezel - 1 *)
isPlateauGrowing(d) == d < bezel - Scale

(* The branch of the distance-to-height mapping taken for distance d *)
isPlateau(d) == d < -bezel
isOutside(d) == d > Scale

(* t = Math.max(0, Math.min(1, -dist / bezel)); with bezel = 0 the quotient *)
(* is 0/0 = NaN for d = 0 and an infinity otherwise *)
slopeT(d) ==
    IF bezel = 0
    THEN IF d = 0 THEN NaN ELSE IF d > 0 THEN 0 ELSE Scale
    ELSE Clamp01(Div(-d, bezel))

(* Variant: the concave easing is t^2 *)
easingConcaveFlipped(t) ==
    IF t = NaN THEN NaN
    ELSE IF profile = "flat" THEN t
    ELSE IF profile = "concave" THEN Mul(t, t)
    ELSE Scale - Mul(Mul(Scale - t, Scale - t), Scale - t)

(* Shape profiling of t *)
easing(t) ==
    IF t = NaN THEN NaN
    ELSE IF profile = "flat" THEN t
    ELSE IF profile = "concave" THEN Scale - Mul(t, t)
    ELSE Scale - Mul(Mul(Scale - t, Scale - t), Scale - t)

(* Variant: no plateau branch *)
distToHeightNoPlateau(d) ==
    IF isOutside(d) THEN 0 ELSE easing(slopeT(d))

distToHeight(d) ==
    IF isPlateau(d) THEN Scale
    ELSE IF isOutside(d) THEN 0
    ELSE easing(slopeT(d))

(* Variant: surface noise for every profile *)
surfaceNoiseAlways(px, py, h) ==
    IF h # NaN /\ h > (8 * Scale) \div 10
    THEN h + Mul(noise2d(px * ((15 * Scale) \div 1000), py * ((15 * Scale) \div 1000)),
                 (3 * Scale) \div 100)
    ELSE h

(* Surface noise for liquid mode *)
surfaceNoise(px, py, h) ==
    IF isLiquid /\ h # NaN /\ h > (8 * Scale) \div 10
    THEN h + Mul(noise2d(px * ((15 * Scale) \div 1000), py * ((15 * Scale) \div 1000)),
                 (3 * Scale) \div 100)
    ELSE h

(* Variant: the height is stored without the final clamp *)
profileHeightUnclamped(px, py) ==
    surfaceNoise(px, py, distToHeight(signedDist(px, py)))

(* The value stored in heightMap[idx] for pixel (px, py) *)
profileHeight(px, py) ==
    Clamp01(surfaceNoise(px, py, distToHeight(signedDist(px, py))))

(* Denominators of the divisions executed while profiling pixel (px, py) *)
profileDens(px, py) ==
    LET d == signedDist(px, py)
    IN  (IF shape = "squircle"
         THEN {(width * Scale) \div 2, (height * Scale) \div 2} ELSE {})
        \cup (IF ~isPlateau(d) /\ ~isOutside(d) THEN {bezel} ELSE {})

----------------------------------------------------------------------------
(* Stage 3: erosion, one output element *)

(* Variant: erosion also runs for tension = 0 *)
erosionOnNonNegative == tension >= 0

erosionOn == tension > 0
kernel == Max(1, Ceil(tension))

(* The kernel offsets k = -kernel .. kernel *)
taps == (0 - kernel)..kernel

(* Variant: an index outside 0 .. n-1 wraps around *)
clampIdxWrap(i, n) == i % n

(* Edge clamp of an index into 0 .. n-1 *)
clampIdx(i, n) == Min(n - 1, Max(0, i))

(* Indices read by the horizontal pass for output (px, py) *)
hTaps(px, py) == [k \in taps |-> py * width + clampIdx(px + k, width)]

(* Indices read by the vertical pass for output (px, py) *)
vTaps(px, py) == [k \in taps |-> clampIdx(py + k, height) * width + px]

RECURSIVE SumTaps(_, _, _, _)
SumTaps(buf, idx, k, hi) ==
    IF k > hi THEN 0 ELSE buf[idx[k]] + SumTaps(buf, idx, k + 1, hi)

(* weight, incremented once per tap *)
weight == Cardinality(taps)

(* sum / weight over the taps idx of buffer buf; NaN propagates *)
boxMean(buf, idx) ==
    IF \E k \in taps : buf[idx[k]] = NaN THEN NaN
    ELSE Div(SumTaps(buf, idx, 0 - kernel, kernel), weight * Scale)

----------------------------------------------------------------------------
(* Stage 4 and 5: normals and packing, one pixel *)

(* The four neighbour indices read for pixel (px, py) *)
packTaps(px, py) ==
    LET x0 == Max(0, px - 1)
        x1 == Min(width - 1, px + 1)
        y0 == Max(0, py - 1)
        y1 == Min(height - 1, py + 1)
    IN  <<py * width + x0, py * width + x1, y0 * width + px, y1 * width + px>>

(* a - b scaled by steepness; NaN propagates *)
slope(a, b) == IF a = NaN \/ b = NaN THEN NaN ELSE Mul(a - b, steepness)

(* len = Math.sqrt(dx * dx + dy * dy + 1.0) *)
normalLen(dx, dy) ==
    IF dx = NaN \/ dy = NaN THEN NaN
    ELSE Sqrt(Mul(dx, dx) + Mul(dy, dy) + Scale)

(* (d / len * 0.5 + 0.5) * 255 stored into a byte *)
normalByte(d, len) ==
    IF d = NaN \/ len = NaN THEN 0
    ELSE ToUint8Clamped((Mul(Div(d, len), Scale \div 2) + Scale \div 2) * 255)

(* hVal * 255 stored into a byte *)
heightByte(hVal) == IF hVal = NaN THEN 0 ELSE ToUint8Clamped(hVal * 255)

(* Variant: alpha graded by the height *)
alphaOfGraded(hVal) == heightByte(hVal)

(* hVal > 0.01 ? 255 : 0 *)
alphaOf(hVal) == IF hVal # NaN /\ hVal > Scale \div 100 THEN 255 ELSE 0

(* <<R, G, B, A>> of pixel (px, py) for the height field h *)
packPixelOf(h, px, py) ==
    LET t == packTaps(px, py)
        hVal == h[py * width + px]
        dx == slope(h[t[1]], h[t[2]])
        dy == slope(h[t[3]], h[t[4]])
        len == normalLen(dx, dy)
    IN  <<normalByte(dx, len), normalByte(dy, len), heightByte(hVal), alphaOf(hVal)>>

(* <<R, G, B, A>> of pixel (px, py) *)
packPixel(px, py) == packPixelOf(heightMap, px, py)

----------------------------------------------------------------------------
(* The arguments a call is made with *)

Dims == {-1, 0, 1, 2, MaxDim}
Radii == {0, Scale, 3 * Scale}
Bezels == {0, Scale \div 2, 2 * Scale}
Shapes == {"rect", "squircle"}
Profiles == {"flat", "concave", "convex", "liquid"}
Tensions == {-Scale, 0, (3 * Scale) \div 2}
Warps == {0, Scale \div 2}

noAccess == [op |-> "none", rdBuf |-> "none", rd |-> {}, wrBuf |-> "none", wr |-> {},
             clobbered |-> {}]
noDirty == [heightMap |-> {}, tempMap |-> {}]
noWrites == [heightMap |-> 0, tempMap |-> 0, data |-> 0]
noCall == [surfaceUrl |-> "none"]

(* Lines 572-576: the initial window list of MetaGlassApp *)
initialWindows ==
    <<[id |-> "controls", isOpen |-> TRUE, zIndex |-> 10],
      [id |-> "code", isOpen |-> FALSE, zIndex |-> 9],
      [id |-> "console", isOpen |-> FALSE, zIndex |-> 8]>>

(* Lines 578-580: the initial log list; an entry is modelled by its id *)
initialLogs == <<1>>

noWindowCall == [op |-> "none", id |-> "none"]

(* Lines 771-777: the default props of GlassBubble *)
defaultProps ==
    [radius |-> 32 * Scale, bezel |-> 24 * Scale, intensity |-> 30, blur |-> 2,
     debug |-> FALSE, shape |-> "rect"]

(* Lines 780-781: the initial state of GlassBubble *)
initialDimensions == [width |-> 0, height |-> 0]

(* The components before anything is mounted *)
hostIdle ==
    /\ mounted = FALSE /\ props = defaultProps
    /\ dimensions = initialDimensions /\ mapUrl = ""
    /\ timers = {} /\ cleanup = 0 /\ changes = 0
    /\ burst = 0 /\ invoked = 0
    /\ windows = initialWindows /\ logs = initialLogs /\ added = 0
    /\ called = noWindowCall /\ before = initialWindows

Init ==
    /\ width \in Dims /\ height \in Dims
    /\ radius \in Radii /\ bezel \in Bezels
    /\ shape \in Shapes /\ profile \in Profiles
    /\ tension \in Tensions /\ warp \in Warps
    /\ pc = "start"
    /\ canvas = <<>> /\ ctx = "unset" /\ perm = <<>>
    /\ heightMap = <<>> /\ tempMap = <<>> /\ data = <<>>
    /\ x = 0 /\ y = 0
    /\ dist = 0
    /\ surfaceUrl = "pending"
    /\ encoded = <<>>
    /\ acc = noAccess /\ dirty = noDirty /\ writes = noWrites /\ lastDen = {}
    /\ profiled = <<>>
    /\ prev = noCall
    /\ hostIdle

----------------------------------------------------------------------------
(* The steps of generateGlassMaps *)

(* Variant: only negative dimensions are rejected *)
invalidDimsNegativeOnly == width < 0 \/ height < 0

invalidDims == width <= 0 \/ height <= 0

(* Lines 104-111: the dimension guard, the canvas and its 2d context. *)
(* getContext may return null. *)
Enter ==
    /\ pc = "start"
    /\ IF invalidDims
       THEN /\ surfaceUrl' = ""
            /\ pc' = "done"
            /\ UNCHANGED <<canvas, ctx>>
       ELSE /\ canvas' = <<width, height>>
            /\ ctx' \in {"2d", "null"}
            /\ IF ctx' = "null"
               THEN pc' = "done" /\ surfaceUrl' = ""
               ELSE pc' = "alloc" /\ UNCHANGED surfaceUrl
    /\ UNCHANGED <<args, perm, heightMap, tempMap, data, ghost, x, y, encoded, prev, host>>

(* Lines 113-128: the buffers and the permutation table *)
Alloc ==
    /\ pc = "alloc"
    /\ heightMap' = [i \in 0..(size - 1) |-> 0]
    /\ tempMap' = [i \in 0..(size - 1) |-> 0]
    /\ perm' \in PermTables
    /\ x' = 0 /\ y' = 0
    /\ pc' = "profile"
    /\ UNCHANGED <<args, canvas, ctx, data, ghost, surfaceUrl, encoded, prev, host>>

(* The last iteration of each pixel loop *)
profileDone == x = width - 1 /\ y = height - 1
(* Variant: the horizontal pass stops after its first row *)
hpassDoneFirstRow == x = width - 1
hpassDone == x = width - 1 /\ y = height - 1
vpassDone == x = width - 1 /\ y = height - 1
(* Variant: the packing loop stops after its first row *)
packDoneFirstRow == x = width - 1
packDone == x = width - 1 /\ y = height - 1

(* Lines 155-209: one iteration of the geometry loop (y outer, x inner) *)
ProfilePixel ==
    /\ pc = "profile"
    /\ LET idx == y * width + x
       IN  /\ heightMap' = [heightMap EXCEPT ![idx] = profileHeight(x, y)]
           /\ dist' = signedDist(x, y)
           /\ lastDen' = profileDens(x, y)
           /\ acc' = [op |-> "profile", rdBuf |-> "none", rd |-> {},
                      wrBuf |-> "heightMap", wr |-> {idx}, clobbered |-> {}]
           /\ writes' = [writes EXCEPT !.heightMap = @ + 1]
           /\ IF profileDone THEN x' = 0 /\ y' = 0
              ELSE IF x + 1 < width THEN x' = x + 1 /\ y' = y
              ELSE x' = 0 /\ y' = y + 1
           /\ pc' = IF profileDone THEN "erode" ELSE "profile"
           /\ profiled' = IF profileDone THEN heightMap' ELSE profiled
    /\ UNCHANGED <<args, canvas, ctx, perm, tempMap, data, dirty, surfaceUrl, encoded, prev, host>>

(* Lines 212-213: the erosion test *)
ErosionGate ==
    /\ pc = "erode"
    /\ pc' = IF erosionOn THEN "hpass" ELSE "imgdata"
    /\ UNCHANGED <<args, bufs, ghost, x, y, surfaceUrl, encoded, prev, host>>

(* Lines 215-225: one iteration of the horizontal pass (y outer, x inner) *)
HPassPixel ==
    /\ pc = "hpass"
    /\ LET idx == y * width + x
           t == hTaps(x, y)
           rd == {t[k] : k \in taps}
       IN  /\ tempMap' = [tempMap EXCEPT ![idx] = boxMean(heightMap, t)]
           /\ acc' = [op |-> "hpass", rdBuf |-> "heightMap", rd |-> rd,
                      wrBuf |-> "tempMap", wr |-> {idx},
                      clobbered |-> rd \cap dirty.heightMap]
           /\ dirty' = IF hpassDone THEN noDirty
                       ELSE [dirty EXCEPT !.tempMap = @ \cup {idx}]
           /\ writes' = [writes EXCEPT !.tempMap = @ + 1]
           /\ lastDen' = {weight}
           /\ IF hpassDone THEN x' = 0 /\ y' = 0
              ELSE IF x + 1 < width THEN x' = x + 1 /\ y' = y
              ELSE x' = 0 /\ y' = y + 1
           /\ pc' = IF hpassDone THEN "vpass" ELSE "hpass"
    /\ UNCHANGED <<args, canvas, ctx, perm, heightMap, data, dist, profiled, surfaceUrl, encoded, prev, host>>

(* Lines 227-237: one iteration of the vertical pass (x outer, y inner) *)
VPassPixel ==
    /\ pc = "vpass"
    /\ LET idx == y * width + x
           t == vTaps(x, y)
           rd == {t[k] : k \in taps}
       IN  /\ heightMap' = [heightMap EXCEPT ![idx] = boxMean(tempMap, t)]
           /\ acc' = [op |-> "vpass", rdBuf |-> "tempMap", rd |-> rd,
                      wrBuf |-> "heightMap", wr |-> {idx},
                      clobbered |-> rd \cap dirty.tempMap]
           /\ dirty' = IF vpassDone THEN noDirty
                       ELSE [dirty EXCEPT !.heightMap = @ \cup {idx}]
           /\ writes' = [writes EXCEPT !.heightMap = @ + 1]
           /\ lastDen' = {weight}
           /\ IF vpassDone THEN x' = 0 /\ y' = 0
              ELSE IF y + 1 < height THEN y' = y + 1 /\ x' = x
              ELSE y' = 0 /\ x' = x + 1
           /\ pc' = IF vpassDone THEN "imgdata" ELSE "vpass"
    /\ UNCHANGED <<args, canvas, ctx, perm, tempMap, data, dist, profiled, surfaceUrl, encoded, prev, host>>

(* Variant: 3 bytes per pixel *)
imageBytesRGB == size * 3

(* ctx.createImageData(width, height): 4 bytes per pixel *)
imageBytes == size * 4

(* Lines 241-243: the image data of the canvas *)
CreateImageData ==
    /\ pc = "imgdata"
    /\ data' = [i \in 0..(imageBytes - 1) |-> 0]
    /\ pc' = "pack"
    /\ UNCHANGED <<args, canvas, ctx, perm, heightMap, tempMap, ghost, x, y, surfaceUrl, encoded, prev, host>>

(* Lines 245-267: one iteration of the packing loop (y outer, x inner) *)
PackPixel ==
    /\ pc = "pack"
    /\ LET i == (y * width + x) * 4
           t == packTaps(x, y)
           rd == {t[k] : k \in 1..4} \cup {y * width + x}
           px == packPixel(x, y)
       IN  /\ data' = [data EXCEPT ![i] = px[1], ![i + 1] = px[2],
                                   ![i + 2] = px[3], ![i + 3] = px[4]]
           /\ acc' = [op |-> "pack", rdBuf |-> "heightMap", rd |-> rd,
                      wrBuf |-> "data", wr |-> {i, i + 1, i + 2, i + 3},
                      clobbered |-> {}]
           /\ writes' = [writes EXCEPT !.data = @ + 4]
           /\ lastDen' = {normalLen(slope(heightMap[t[1]], heightMap[t[2]]),
                                    slope(heightMap[t[3]], heightMap[t[4]]))}
           /\ IF packDone THEN x' = 0 /\ y' = 0
              ELSE IF x + 1 < width THEN x' = x + 1 /\ y' = y
              ELSE x' = 0 /\ y' = y + 1
           /\ pc' = IF packDone THEN "encode" ELSE "pack"
    /\ UNCHANGED <<args, canvas, ctx, perm, heightMap, tempMap, dist, dirty, profiled,
                   surfaceUrl, encoded, prev, host>>

(* Lines 269-270: putImageData and toDataURL *)
Encode ==
    /\ pc = "encode"
    /\ encoded' = data
    /\ surfaceUrl' = "data:image/png"
    /\ pc' = "done"
    /\ UNCHANGED <<args, bufs, ghost, x, y, prev, host>>

Next ==
    \/ Enter
    \/ Alloc
    \/ ProfilePixel
    \/ ErosionGate
    \/ HPassPixel
    \/ VPassPixel
    \/ CreateImageData
    \/ PackPixel
    \/ Encode

Spec == Init /\ [][Next]_vars

----------------------------------------------------------------------------
(* The loops of generateGlassMaps as one step *)

(* The pixel (px, py) of buffer element i *)
colOf(i) == i % width
rowOf(i) == i \div width

(* Heights the packing loop reads for the pixels P *)
packReads(P) == P \cup UNION {{packTaps(colOf(i), rowOf(i))[k] : k \in 1..4} : i \in P}

(* Elements the vertical pass reads to write the elements N *)
vpassReads(N) == UNION {{vTaps(colOf(i), rowOf(i))[k] : k \in taps} : i \in N}

(* Elements the horizontal pass reads to write the elements V *)
hpassReads(V) == UNION {{hTaps(colOf(i), rowOf(i))[k] : k \in taps} : i \in V}

(* No element of S lies in lo .. hi *)
none(S, lo, hi) == \A i \in S : i < lo \/ i > hi

(* Lines 155-209: the geometry loop over the elements of S in lo .. hi.    *)
(* No iteration of a loop reads what another iteration of the same loop    *)
(* writes, so the range is handled in two halves.                          *)
RECURSIVE profileLoop(_, _, _)
profileLoop(S, lo, hi) ==
    IF none(S, lo, hi) THEN <<>>
    ELSE IF lo = hi THEN lo :> profileHeight(colOf(lo), rowOf(lo))
    ELSE profileLoop(S, lo, (lo + hi) \div 2)
             @@ profileLoop(S, (lo + hi) \div 2 + 1, hi)

(* Lines 215-225: the horizontal pass from src over the elements of S in   *)
(* lo .. hi                                                                *)
RECURSIVE hpassLoop(_, _, _, _)
hpassLoop(src, S, lo, hi) ==
    IF none(S, lo, hi) THEN <<>>
    ELSE IF lo = hi THEN lo :> boxMean(src, hTaps(colOf(lo), rowOf(lo)))
    ELSE hpassLoop(src, S, lo, (lo + hi) \div 2)
             @@ hpassLoop(src, S, (lo + hi) \div 2 + 1, hi)

(* Lines 227-237: the vertical pass from src over the elements of S in     *)
(* lo .. hi                                                                *)
RECURSIVE vpassLoop(_, _, _, _)
vpassLoop(src, S, lo, hi) ==
    IF none(S, lo, hi) THEN <<>>
    ELSE IF lo = hi THEN lo :> boxMean(src, vTaps(colOf(lo), rowOf(lo)))
    ELSE vpassLoop(src, S, lo, (lo + hi) \div 2)
             @@ vpassLoop(src, S, (lo + hi) \div 2 + 1, hi)

(* Lines 245-267: the packing loop of h over the pixels of S in lo .. hi *)
RECURSIVE packLoop(_, _, _, _)
packLoop(h, S, lo, hi) ==
    IF none(S, lo, hi) THEN <<>>
    ELSE IF lo = hi
    THEN LET px == packPixelOf(h, colOf(lo), rowOf(lo))
         IN  (4 * lo :> px[1]) @@ (4 * lo + 1 :> px[2])
                 @@ (4 * lo + 2 :> px[3]) @@ (4 * lo + 3 :> px[4])
    ELSE packLoop(h, S, lo, (lo + hi) \div 2)
             @@ packLoop(h, S, (lo + hi) \div 2 + 1, hi)

(* A zero-filled typed array on the elements S *)
zeros(S) == [i \in S |-> 0]

(* Lines 155-270 in one step, for the output pixels P: the buffers keep    *)
(* the elements these pixels depend on                                     *)
Pipeline(P) ==
    /\ pc = "profile"
    /\ LET N == packReads(P)
           V == IF erosionOn THEN vpassReads(N) ELSE N
           H == IF erosionOn THEN hpassReads(V) ELSE N
       IN  /\ profiled' = profileLoop(H, 0, size - 1)
           /\ tempMap' = IF erosionOn THEN hpassLoop(profiled', V, 0, size - 1)
                         ELSE zeros(V)
           /\ heightMap' = IF erosionOn
                           THEN vpassLoop(tempMap', N, 0, size - 1) @@ profiled'
                           ELSE profiled'
           /\ data' = packLoop(heightMap', P, 0, size - 1)
           /\ encoded' = data'
           /\ surfaceUrl' = "data:image/png"
    /\ pc' = "done"
    /\ UNCHANGED <<args, canvas, ctx, perm, x, y, dist, acc, dirty, writes, lastDen, prev, host>>

----------------------------------------------------------------------------
(* The example call of the specification, evaluated pixel by pixel *)

ProbeSpan == 2       \* probed pixels lie within this distance of a corner or the centre

(* generateGlassMaps(100, 100, 20, 10, 'rect', 'convex', 2, 0) *)
InitExample ==
    /\ width = 100 /\ height = 100
    /\ radius = 20 * Scale /\ bezel = 10 * Scale
    /\ shape = "rect" /\ profile = "convex"
    /\ tension = 2 * Scale /\ warp = 0
    /\ pc = "start"
    /\ canvas = <<>> /\ ctx = "unset" /\ perm = <<>>
    /\ heightMap = <<>> /\ tempMap = <<>> /\ data = <<>>
    /\ x = 0 /\ y = 0
    /\ dist = 0
    /\ surfaceUrl = "pending"
    /\ encoded = <<>>
    /\ acc = noAccess /\ dirty = noDirty /\ writes = noWrites /\ lastDen = {}
    /\ profiled = <<>>
    /\ prev = noCall
    /\ hostIdle

(* Coordinates near 0, near the middle and near the far edge *)
Probes(n) ==
    (0..ProbeSpan) \cup ((n \div 2 - ProbeSpan)..(n \div 2 + ProbeSpan))
        \cup ((n - 1 - ProbeSpan)..(n - 1))

(* A pixel near a corner, an edge or the centre and a pixel of the diagonal *)
SamplePixel ==
    \E px \in Probes(width), py \in Probes(height), q \in Probes(width) :
        Pipeline({py * width + px, q * width + q})

NextExample ==
    \/ Enter
    \/ Alloc
    \/ SamplePixel

SpecExample == InitExample /\ [][NextExample]_vars

----------------------------------------------------------------------------
(* Two successive calls of generateGlassMaps *)

(* The output pixels the caller compares: all of them, or those of the     *)
(* top left corner of a call larger than MaxDim x MaxDim                   *)
compared ==
    IF width <= MaxDim /\ height <= MaxDim THEN 0..(size - 1)
    ELSE {py * width + px : px \in 0..Min(5, width - 1), py \in 0..Min(5, height - 1)}

(* All loops of the call, for the compared output pixels *)
WholeCall == \E P \in {compared} : Pipeline(P)

(* What the caller keeps of a call that returned *)
returned ==
    [surfaceUrl |-> surfaceUrl, args |-> args, perm |-> perm,
     profiled |-> profiled, heightMap |-> heightMap, encoded |-> encoded]

(* The call returned a surface and no call preceded it *)
firstReturned == pc = "done" /\ surfaceUrl # "" /\ prev = noCall

(* The locals of a new call *)
freshCall ==
    /\ pc' = "start"
    /\ canvas' = <<>> /\ ctx' = "unset" /\ perm' = <<>>
    /\ heightMap' = <<>> /\ tempMap' = <<>> /\ data' = <<>>
    /\ x' = 0 /\ y' = 0
    /\ dist' = 0
    /\ surfaceUrl' = "pending"
    /\ encoded' = <<>>
    /\ acc' = noAccess /\ dirty' = noDirty /\ writes' = noWrites /\ lastDen' = {}
    /\ profiled' = <<>>

(* The caller calls again with the same arguments *)
CallSame ==
    /\ firstReturned
    /\ prev' = returned
    /\ freshCall
    /\ UNCHANGED <<args, host>>

(* The caller calls again with another radius (calls without noise) *)
CallRadius ==
    /\ firstReturned /\ warp <= 0 /\ ~isLiquid
    /\ prev' = returned
    /\ radius' \in Radii \ {radius}
    /\ freshCall
    /\ UNCHANGED <<width, height, bezel, shape, profile, tension, warp, host>>

(* The caller calls again with another bezel (calls without noise) *)
CallBezel ==
    /\ firstReturned /\ warp <= 0 /\ ~isLiquid
    /\ prev' = returned
    /\ bezel' \in Bezels \ {bezel}
    /\ freshCall
    /\ UNCHANGED <<width, height, radius, shape, profile, tension, warp, host>>

(* The caller calls again with the other shape (calls without noise) *)
CallShape ==
    /\ firstReturned /\ warp <= 0 /\ ~isLiquid
    /\ prev' = returned
    /\ shape' \in Shapes \ {shape}
    /\ freshCall
    /\ UNCHANGED <<width, height, radius, bezel, profile, tension, warp, host>>

NextPair ==
    \/ Enter
    \/ Alloc
    \/ WholeCall
    \/ CallSame
    \/ CallRadius
    \/ CallBezel
    \/ CallShape

(* The calls of Init, and a rect whose corner arc passes within 0.06 of a   *)
(* pixel: 18 x 18 with radius 9, where pixel (1, 5) has dist = sqrt(80) - 9 *)
InitPair ==
    /\ \/ /\ width \in Dims /\ height \in Dims
          /\ radius \in Radii /\ shape \in Shapes
       \/ /\ width = 18 /\ height = 18
          /\ radius = 9 * Scale /\ shape = "rect"
    /\ bezel \in Bezels /\ profile \in Profiles
    /\ tension \in Tensions /\ warp \in Warps
    /\ pc = "start"
    /\ canvas = <<>> /\ ctx = "unset" /\ perm = <<>>
    /\ heightMap = <<>> /\ tempMap = <<>> /\ data = <<>>
    /\ x = 0 /\ y = 0
    /\ dist = 0
    /\ surfaceUrl = "pending"
    /\ encoded = <<>>
    /\ acc = noAccess /\ dirty = noDirty /\ writes = noWrites /\ lastDen = {}
    /\ profiled = <<>>
    /\ prev = noCall
    /\ hostIdle

SpecPair == InitPair /\ [][NextPair]_vars

----------------------------------------------------------------------------
(* GlassBubble (src/flat.tsx:771-941, src/unnamed/part_000:712-800).       *)
(* A state or prop change, the render it causes and the effects of that    *)
(* render are one step.                                                    *)

MaxChanges == 3      \* renders with a new tuple during the life of a bubble

(* Math.round: to the nearest integer, halves upwards *)
MathRound(v) == Floor(v + Scale \div 2)

(* Line 824, variant: the effect also depends on intensity *)
depsWithIntensity(d, p) == <<d.width, d.height, p.radius, p.bezel, p.shape, p.intensity>>

(* Line 824, variant: the effect does not depend on bezel *)
depsWithoutBezel(d, p) == <<d.width, d.height, p.radius, p.shape>>

(* Line 824: the dependencies of the generation effect *)
deps(d, p) == <<d.width, d.height, p.radius, p.bezel, p.shape>>

(* Lines 811-819: the arguments the timer callback of a render passes *)
tuple(d, p) ==
    [width |-> d.width, height |-> d.height, radius |-> p.radius,
     bezel |-> p.bezel, shape |-> p.shape]

(* Line 823, variant: the cleanup clears nothing *)
clearedNever(id) == {}

(* Line 823: clearTimeout(timeout) of the effect run that set timer id *)
cleared(id) == {t \in timers : t.id = id}

(* Lines 807-824: the generation effect of a render with state d and props *)
(* p that follows the render of dimensions and props: when a dependency    *)
(* differs, the previous cleanup and then the effect body                  *)
Effect(d, p) ==
    IF deps(d, p) = deps(dimensions, props)
    THEN UNCHANGED <<timers, cleanup>>
    ELSE IF d.width = 0 \/ d.height = 0
    THEN /\ timers' = timers \ cleared(cleanup)
         /\ cleanup' = 0
    ELSE /\ timers' = (timers \ cleared(cleanup))
                          \cup {[id |-> changes + 1, args |-> tuple(d, p)]}
         /\ cleanup' = changes + 1

(* The render with state d and props p and its effects *)
Render(d, p) ==
    /\ tuple(d, p) # tuple(dimensions, props) => changes < MaxChanges
    /\ dimensions' = d
    /\ props' = p
    /\ changes' = IF tuple(d, p) # tuple(dimensions, props) THEN changes + 1 ELSE changes
    /\ Effect(d, p)

(* Lines 788-805: the ResizeObserver callback for a content rect rw x rh *)
ResizeNotify(rw, rh) ==
    /\ mounted
    /\ LET w == MathRound(rw)
           h == MathRound(rh)
       IN  IF dimensions.width = w /\ dimensions.height = h
           THEN UNCHANGED <<dimensions, props, changes, timers, cleanup>>
           ELSE Render([width |-> w, height |-> h], props)
    /\ UNCHANGED <<mounted, mapUrl, args, call, burst, invoked, app>>

(* Lines 771-778: the parent renders the bubble with prop key set to val *)
SetProp(key, val) ==
    /\ mounted
    /\ Render(dimensions, [props EXCEPT ![key] = val])
    /\ UNCHANGED <<mounted, mapUrl, args, call, burst, invoked, app>>

(* Lines 104-111 and 270: the results generateGlassMaps(w, h, ...) can have *)
surfaceUrls(w, h) ==
    IF w <= 0 \/ h <= 0 THEN {""} ELSE {"data:image/png", ""}

(* Lines 810-821: the timer callback t runs: the call of generateGlassMaps *)
(* and setMapUrl, which React ignores on an unmounted component           *)
TimerFires(t) ==
    /\ t \in timers
    /\ timers' = timers \ {t}
    /\ width' = t.args.width /\ height' = t.args.height
    /\ radius' = t.args.radius /\ bezel' = t.args.bezel /\ shape' = t.args.shape
    /\ profile' = "convex" /\ tension' = 2 * Scale /\ warp' = 0
    /\ surfaceUrl' \in surfaceUrls(t.args.width, t.args.height)
    /\ pc' = "done"
    /\ mapUrl' = IF mounted THEN surfaceUrl' ELSE mapUrl
    /\ UNCHANGED <<mounted, props, dimensions, cleanup, changes>>
    /\ UNCHANGED <<bufs, ghost, x, y, encoded, prev, burst, invoked, app>>

(* Line 810: a pending timer of the bubble fires *)
Timeout == \E t \in timers : TimerFires(t)

(* Lines 804 and 823: the cleanups of both effects when the bubble unmounts *)
Unmount ==
    /\ mounted
    /\ mounted' = FALSE
    /\ timers' = timers \ cleared(cleanup)
    /\ cleanup' = 0
    /\ UNCHANGED <<props, dimensions, mapUrl, changes, args, call, burst, invoked, app>>

(* Lines 826-827: the filter definition of the render, "null" or "svg" *)
filterSvg ==
    IF dimensions.width = 0 \/ dimensions.height = 0 THEN "null" ELSE "svg"

(* Line 902: the filter element is part of the output *)
filterRendered == mapUrl # "" /\ filterSvg # "null"

(* Lines 869-870: backdrop-filter names url(#filterId) *)
filterReferenced == mapUrl # ""

(* Content rects the observer reports, Scale units *)
RawSizes == {0, (4 * Scale) \div 10, (3 * Scale) \div 2, 2 * Scale}
(* Lines 771-778: the values the parent passes for each prop *)
PropValues ==
    [radius |-> {32 * Scale, 48 * Scale}, bezel |-> {24 * Scale, 10 * Scale},
     intensity |-> {30, 40}, blur |-> {0, 2}, debug |-> BOOLEAN, shape |-> Shapes]

(* The bubble after its first render and effects: nothing measured yet *)
InitBubble ==
    /\ mounted = TRUE
    /\ props \in [radius : PropValues.radius, bezel : PropValues.bezel,
                  intensity : {30}, blur : {2}, debug : {FALSE}, shape : Shapes]
    /\ dimensions = initialDimensions /\ mapUrl = ""
    /\ timers = {} /\ cleanup = 0 /\ changes = 0
    /\ burst = 0 /\ invoked = 0
    /\ windows = initialWindows /\ logs = initialLogs /\ added = 0
    /\ called = noWindowCall /\ before = initialWindows
    /\ width = 0 /\ height = 0 /\ radius = 0 /\ bezel = 0
    /\ shape = "rect" /\ profile = "convex" /\ tension = 0 /\ warp = 0
    /\ pc = "start"
    /\ canvas = <<>> /\ ctx = "unset" /\ perm = <<>>
    /\ heightMap = <<>> /\ tempMap = <<>> /\ data = <<>>
    /\ x = 0 /\ y = 0
    /\ dist = 0
    /\ surfaceUrl = "pending"
    /\ encoded = <<>>
    /\ acc = noAccess /\ dirty = noDirty /\ writes = noWrites /\ lastDen = {}
    /\ profiled = <<>>
    /\ prev = noCall

NextBubble ==
    \/ \E rw \in RawSizes, rh \in RawSizes : ResizeNotify(rw, rh)
    \/ \E key \in DOMAIN PropValues : \E val \in PropValues[key] : SetProp(key, val)
    \/ Timeout
    \/ Unmount

SpecBubble == InitBubble /\ [][NextBubble]_vars

(* The timer of a mounted bubble eventually fires *)
SpecBubbleFair == SpecBubble /\ WF_vars(Timeout)

----------------------------------------------------------------------------
(* GlassBubble of src/components/Package/GlassBubble.tsx: the same state,  *)
(* no shape prop, and a generation effect without a timer.                 *)

MaxBurst == 3        \* tuple changes between two quiet periods

(* Line 65: the dependencies of the generation effect *)
packageDeps(d, p) == <<d.width, d.height, p.radius, p.bezel>>

(* Lines 57-63: the urls generateDisplacementMap can return *)
displacementMapUrls == {"data:image/png", ""}

(* Lines 54-65: the generation effect of a render with state d and props p *)
(* that follows the render of dimensions and props: the call of            *)
(* generateDisplacementMap(width, height, radius, bezel) and setMapUrl     *)
PackageEffect(d, p) ==
    IF packageDeps(d, p) = packageDeps(dimensions, props)
           \/ d.width = 0 \/ d.height = 0
    THEN UNCHANGED <<width, height, radius, bezel, mapUrl, invoked>>
    ELSE /\ width' = d.width /\ height' = d.height
         /\ radius' = p.radius /\ bezel' = p.bezel
         /\ mapUrl' \in displacementMapUrls
         /\ invoked' = invoked + 1

(* The render with state d and props p and its effects *)
PackageRender(d, p) ==
    /\ packageDeps(d, p) # packageDeps(dimensions, props) => burst < MaxBurst
    /\ dimensions' = d
    /\ props' = p
    /\ burst' = IF packageDeps(d, p) # packageDeps(dimensions, props)
                THEN burst + 1 ELSE burst
    /\ PackageEffect(d, p)

(* Lines 36-48: the ResizeObserver callback for a content rect rw x rh *)
PackageResizeNotify(rw, rh) ==
    /\ mounted
    /\ LET w == MathRound(rw)
           h == MathRound(rh)
       IN  IF dimensions.width = w /\ dimensions.height = h
           THEN UNCHANGED <<dimensions, props, burst, width, height, radius, bezel,
                            mapUrl, invoked>>
           ELSE PackageRender([width |-> w, height |-> h], props)
    /\ UNCHANGED <<mounted, timers, cleanup, changes, shape, profile, tension, warp,
                   call, app>>

(* Lines 14-20: the parent renders the bubble with prop key set to val *)
PackageSetProp(key, val) ==
    /\ mounted
    /\ PackageRender(dimensions, [props EXCEPT ![key] = val])
    /\ UNCHANGED <<mounted, timers, cleanup, changes, shape, profile, tension, warp,
                   call, app>>

(* Nothing changes for longer than a debounce delay would last *)
Quiet ==
    /\ burst > 0
    /\ burst' = 0 /\ invoked' = 0
    /\ UNCHANGED <<bubble, app, args, call>>

(* Lines 6-12: the props of the component *)
PackagePropValues == [key \in DOMAIN PropValues \ {"shape"} |-> PropValues[key]]

InitPackage == InitBubble /\ props.shape = "rect"

NextPackage ==
    \/ \E rw \in RawSizes, rh \in RawSizes : PackageResizeNotify(rw, rh)
    \/ \E key \in DOMAIN PackagePropValues :
           \E val \in PackagePropValues[key] : PackageSetProp(key, val)
    \/ Quiet

SpecPackage == InitPackage /\ [][NextPackage]_vars

----------------------------------------------------------------------------
(* MetaGlassApp (src/flat.tsx:560-628, src/unnamed/part_000:822-861): the  *)
(* log list and the window list. A log entry is modelled by its id, the    *)
(* ordinal of its addition after the initial entry 1.                      *)

MaxAdds == 51        \* addLog calls during the life of the app
MaxZIndex == 13      \* the largest zIndex a window is raised to

(* Line 589: the length newLogs.slice(-50) keeps *)
LogCap == 50

(* Line 589, variant: slice(0, k) keeps the oldest k elements *)
sliceFirst(s, k) == IF Len(s) <= k THEN s ELSE SubSeq(s, 1, k)

(* Line 589: s.slice(-k), the last k elements of s *)
sliceLast(s, k) == IF Len(s) <= k THEN s ELSE SubSeq(s, Len(s) - k + 1, Len(s))

(* Lines 586-590: the updater of addLog applied to the list l *)
withLog(l) == sliceLast(Append(l, added + 2), LogCap)

(* Lines 584-591: addLog(message, type) *)
AddLog ==
    /\ added < MaxAdds
    /\ logs' = withLog(logs)
    /\ added' = added + 1
    /\ UNCHANGED <<windows, called, before, bubble, burst, invoked, args, call>>

(* The ids of the three windows and an id that names no window *)
CallIds == {"controls", "code", "console", "settings"}

(* prev.find(w => w.id === id): the positions of the windows named id *)
find(id) == {i \in DOMAIN windows : windows[i].id = id}

(* Math.max(...prev.map(w => w.zIndex)) *)
maxZ == CHOOSE z \in {windows[i].zIndex : i \in DOMAIN windows} :
            \A i \in DOMAIN windows : windows[i].zIndex <= z

(* Variant: the window is raised to the current maximum *)
raisedToMax(z) == z

(* Lines 611 and 625: the zIndex a raised window gets *)
raised(z) == z + 1

(* Variant: a toggled window is raised whether it opens or closes *)
toggledAlwaysRaised(w) == [w EXCEPT !.isOpen = ~w.isOpen, !.zIndex = raised(maxZ)]

(* Lines 609-613: the toggled window *)
toggled(w) ==
    [w EXCEPT !.isOpen = ~w.isOpen,
              !.zIndex = IF ~w.isOpen THEN raised(maxZ) ELSE w.zIndex]

(* Lines 600-615: toggleWindow(id) *)
ToggleWindow(id) ==
    /\ called' = [op |-> "toggle", id |-> id]
    /\ before' = windows
    /\ IF find(id) = {}
       THEN UNCHANGED <<windows, logs, added>>
       ELSE LET target == windows[CHOOSE i \in find(id) : TRUE]
            IN  /\ ~target.isOpen => (added < MaxAdds /\ maxZ < MaxZIndex)
                /\ IF ~target.isOpen
                   THEN logs' = withLog(logs) /\ added' = added + 1
                   ELSE UNCHANGED <<logs, added>>
                /\ windows' = [i \in DOMAIN windows |->
                                  IF windows[i].id = id THEN toggled(windows[i])
                                  ELSE windows[i]]
    /\ UNCHANGED <<bubble, burst, invoked, args, call>>

(* Variant: focusWindow never returns early *)
onTopNever(id) == FALSE

(* Line 621: the window named id exists and has the largest zIndex *)
onTop(id) == \E i \in find(id) : windows[i].zIndex = maxZ

(* Lines 617-628: focusWindow(id) *)
FocusWindow(id) ==
    /\ called' = [op |-> "focus", id |-> id]
    /\ before' = windows
    /\ IF onTop(id)
       THEN UNCHANGED windows
       ELSE /\ find(id) # {} => maxZ < MaxZIndex
            /\ windows' = [i \in DOMAIN windows |->
                              [windows[i] EXCEPT !.zIndex =
                                   IF windows[i].id = id THEN raised(maxZ) ELSE @]]
    /\ UNCHANGED <<logs, added, bubble, burst, invoked, args, call>>

(* The app after its first render; no bubble is modelled *)
InitApp ==
    /\ hostIdle
    /\ width = 0 /\ height = 0 /\ radius = 0 /\ bezel = 0
    /\ shape = "rect" /\ profile = "convex" /\ tension = 0 /\ warp = 0
    /\ pc = "start"
    /\ canvas = <<>> /\ ctx = "unset" /\ perm = <<>>
    /\ heightMap = <<>> /\ tempMap = <<>> /\ data = <<>>
    /\ x = 0 /\ y = 0
    /\ dist = 0
    /\ surfaceUrl = "pending"
    /\ encoded = <<>>
    /\ acc = noAccess /\ dirty = noDirty /\ writes = noWrites /\ lastDen = {}
    /\ profiled = <<>>
    /\ prev = noCall

NextApp ==
    \/ AddLog
    \/ \E id \in CallIds : ToggleWindow(id)
    \/ \E id \in CallIds : FocusWindow(id)

SpecApp == InitApp /\ [][NextApp]_vars

----------------------------------------------------------------------------
(* Properties of generateGlassMaps *)

(* The height HeightProfiler stored in the last iteration of its loop *)
storedHeight == heightMap[CHOOSE i \in acc.wr : TRUE]

(* The call ran past the erosion stage *)
afterErosion == pc \in {"imgdata", "pack", "encode"} \/ (pc = "done" /\ surfaceUrl # "")

(* C1: a call with width <= 0 or height <= 0 returns the empty result      *)
(* before the canvas is created, before any buffer is allocated, before    *)
(* the permutation table is filled and before any pipeline stage runs.     *)
C1_EmptyBeforeAnyWork ==
    (width <= 0 \/ height <= 0) =>
        /\ pc \in {"start", "done"}
        /\ pc = "done" => surfaceUrl = ""
        /\ canvas = <<>> /\ ctx = "unset" /\ perm = <<>>
        /\ heightMap = <<>> /\ tempMap = <<>> /\ data = <<>> /\ encoded = <<>>
        /\ acc = noAccess /\ writes = noWrites

C1_Witness ==
    pc = "done" /\ width = 0 /\ height > 0 /\ surfaceUrl = ""

(* C2 as stated: with width > 0 and height > 0 the result is non-empty     *)
(* with width*height*4 bytes, and the empty result is returned only for    *)
(* width <= 0 or height <= 0.                                              *)
C2_Original ==
    pc = "done" =>
        IF width > 0 /\ height > 0
        THEN surfaceUrl # "" /\ Cardinality(DOMAIN encoded) = width * height * 4
        ELSE surfaceUrl = ""

(* C2 amended: with width > 0 and height > 0 and a canvas that provides a  *)
(* 2d context the result is non-empty with exactly width*height*4 bytes;   *)
(* the empty result is returned only for width <= 0 or height <= 0 or a    *)
(* missing 2d context.                                                     *)
C2_NonEmptyUnlessNoContext ==
    pc = "done" =>
        IF width > 0 /\ height > 0 /\ ctx # "null"
        THEN surfaceUrl # "" /\ Cardinality(DOMAIN encoded) = width * height * 4
        ELSE surfaceUrl = ""

C2_Witness ==
    /\ pc = "done" /\ width = 2 /\ height = MaxDim /\ ctx = "2d"
    /\ surfaceUrl # "" /\ Cardinality(DOMAIN encoded) = 8 * MaxDim

(* C3: in the pixel buffer every alpha byte is 0 or 255, and it is 255     *)
(* exactly when the final height of its pixel is > 0.01.                   *)
C3_AlphaBinary ==
    (pc = "done" /\ surfaceUrl # "") =>
        \A p \in 0..(width * height - 1) :
            /\ encoded[4 * p + 3] \in {0, 255}
            /\ encoded[4 * p + 3] = 255 <=>
                   (heightMap[p] # NaN /\ 100 * heightMap[p] > Scale)

C3_Witness ==
    /\ pc = "done" /\ surfaceUrl # ""
    /\ \E p, q \in 0..(width * height - 1) :
          /\ encoded[4 * p + 3] = 255 /\ heightMap[p] < Scale
          /\ encoded[4 * q + 3] = 0 /\ heightMap[q] > 0

(* C4: with bezel > 0 every value of the height field and of the           *)
(* intermediate buffer is in [0,1] at every point of the pipeline.         *)
C4_HeightsInUnitInterval ==
    bezel > 0 =>
        /\ \A i \in DOMAIN heightMap : heightMap[i] >= 0 /\ heightMap[i] <= Scale
        /\ \A i \in DOMAIN tempMap : tempMap[i] >= 0 /\ tempMap[i] <= Scale

C4_Witness ==
    /\ bezel > 0 /\ pc = "imgdata" /\ acc.op = "vpass" /\ profile = "liquid"
    /\ \E i \in DOMAIN heightMap : heightMap[i] > 0 /\ heightMap[i] < Scale
    /\ \E i \in DOMAIN profiled : profiled[i] = Scale

(* C5 as stated: every division executed per pixel has a non-zero          *)
(* denominator and no height is NaN, for every bezel of the slider range   *)
(* 0..100.                                                                  *)
C5_Original ==
    /\ 0 \notin lastDen
    /\ \A i \in DOMAIN heightMap : heightMap[i] # NaN
    /\ \A i \in DOMAIN tempMap : tempMap[i] # NaN

(* C6 as stated: a pixel with dist < -bezel gets exactly 1.0 from           *)
(* HeightProfiler, for every profile and shape.                            *)
C6_Original ==
    (acc.op = "profile" /\ dist < -bezel) => storedHeight = Scale

(* C6 amended: a pixel with dist < -bezel gets exactly 1.0 for the         *)
(* profiles flat, concave and convex; for liquid it gets 1.0 plus 0.03     *)
(* times the surface noise, clamped, which is in [0.94, 1.0].              *)
C6_PlateauHeight ==
    (acc.op = "profile" /\ dist < -bezel) =>
        IF profile = "liquid"
        THEN 100 * storedHeight >= 94 * Scale /\ storedHeight <= Scale
        ELSE storedHeight = Scale

C6_Witness ==
    /\ acc.op = "profile" /\ dist < -bezel /\ bezel > 0
    /\ profile = "concave" /\ shape = "squircle" /\ storedHeight = Scale

C9_ErosionSkipped ==
    tension <= 0 =>
        /\ pc \notin {"hpass", "vpass"}
        /\ writes.tempMap = 0
        /\ \A i \in DOMAIN tempMap : tempMap[i] = 0
        /\ afterErosion => heightMap = profiled /\ writes.heightMap = width * height

C9_Witness ==
    /\ tension = 0 /\ pc = "pack" /\ acc.op = "pack"
    /\ \E i \in DOMAIN heightMap : heightMap[i] > 0 /\ heightMap[i] < Scale

(* C10: with tension > 0 the horizontal pass reads only the height field   *)
(* and writes only the intermediate buffer, the vertical pass starts only  *)
(* after all width*height intermediate entries are written, reads only the *)
(* intermediate buffer and writes only the height field, and no pass reads *)
(* an element it has already overwritten.                                  *)
C10_PassesSequential ==
    /\ acc.op = "hpass" => acc.rdBuf = "heightMap" /\ acc.wrBuf = "tempMap"
    /\ acc.op = "vpass" => acc.rdBuf = "tempMap" /\ acc.wrBuf = "heightMap"
    /\ pc = "hpass" => heightMap = profiled /\ writes.heightMap = width * height
    /\ pc = "vpass" => writes.tempMap = width * height
    /\ (pc = "vpass" /\ acc.op = "hpass") => writes.heightMap = width * height
    /\ acc.clobbered = {}

C10_Witness ==
    /\ tension > 0 /\ pc = "vpass" /\ acc.op = "vpass" /\ height > 1
    /\ Cardinality(acc.rd) > 1 /\ dirty.heightMap # {}

(* The pixel an erosion pass wrote in its last iteration *)
erodedIdx == CHOOSE i \in acc.wr : TRUE

(* The valid index of 0 .. n-1 nearest to i *)
nearestValid(i, n) ==
    CHOOSE v \in 0..(n - 1) : \A u \in 0..(n - 1) : Abs(v - i) <= Abs(u - i)

(* Arithmetic mean of the samples s[-k], ..., s[k]; NaN if one is NaN *)
RECURSIVE sampleSum(_, _)
sampleSum(s, j) == IF j \notin DOMAIN s THEN 0 ELSE s[j] + sampleSum(s, j + 1)
sampleMean(s, k) ==
    IF \E j \in DOMAIN s : s[j] = NaN THEN NaN
    ELSE Div(sampleSum(s, 0 - k), (2 * k + 1) * Scale)

(* C11: with tension > 0 and k = max(1, ceil(tension)) the horizontal pass *)
(* stores at (x, y) the arithmetic mean of the 2k+1 heights of row y at    *)
(* the columns x-k .. x+k, and the vertical pass stores at (x, y) the mean *)
(* of the 2k+1 intermediate values of column x at the rows y-k .. y+k; an  *)
(* index outside the buffer is replaced by the nearest valid index, never  *)
(* wrapped around and never read as zero, also when width or height is     *)
(* smaller than the kernel.                                                *)
C11_BoxMeanEdgeClamped ==
    LET k == CHOOSE n \in 1..(tension \div Scale + 1) :
                 /\ n * Scale >= tension
                 /\ (n = 1 \/ (n - 1) * Scale < tension)
        px == erodedIdx % width
        py == erodedIdx \div width
    IN  /\ acc.op = "hpass" =>
              tempMap[erodedIdx] =
                  sampleMean([j \in (0 - k)..k |->
                      profiled[py * width + nearestValid(px + j, width)]], k)
        /\ acc.op = "vpass" =>
              heightMap[erodedIdx] =
                  sampleMean([j \in (0 - k)..k |->
                      tempMap[nearestValid(py + j, height) * width + px]], k)

C11_Witness ==
    /\ tension > 0 /\ acc.op = "vpass" /\ width = 2 /\ height = 2 /\ bezel > 0
    /\ heightMap[erodedIdx] > 0 /\ heightMap[erodedIdx] < Scale
    /\ \E i, j \in DOMAIN tempMap : tempMap[i] # tempMap[j]

(* The pixel buffer holds the bytes of pixel (px, py) *)
hasPixel(px, py) ==
    pc = "done" /\ surfaceUrl # "" /\ 4 * (py * width + px) \in DOMAIN encoded

(* Channel c (0 = R, 1 = G, 2 = B, 3 = A) of pixel (px, py) of the output *)
channel(px, py, c) == encoded[4 * (py * width + px) + c]

(* C12: for generateGlassMaps(100, 100, 20, 10, rect, convex, 2, 0) the    *)
(* output pixel (50,50) has A = 255 and B = 255 and the output pixel (0,0) *)
(* has A = 0.                                                              *)
C12_ExamplePixels ==
    /\ hasPixel(50, 50) => channel(50, 50, 3) = 255 /\ channel(50, 50, 2) = 255
    /\ hasPixel(0, 0) => channel(0, 0, 3) = 0

C12_Witness ==
    /\ width = 100 /\ height = 100 /\ radius = 20 * Scale /\ bezel = 10 * Scale
    /\ tension = 2 * Scale
    /\ hasPixel(50, 50) /\ channel(50, 50, 2) = 255 /\ channel(50, 50, 3) = 255
    /\ hasPixel(0, 0) /\ channel(0, 0, 2) = 0 /\ channel(0, 0, 3) = 0
    /\ Cardinality(DOMAIN profiled) > 25

(* C13 as stated: for shape rect, radius 0, warp 0, a non-liquid profile   *)
(* and width = height = n the final height field is mirror-symmetric on    *)
(* the pixels not on the outermost ring: height(x, y) = height(n-1-x, y)   *)
(* and height(x, y) = height(x, n-1-y).                                    *)
C13_Original ==
    (/\ afterErosion /\ shape = "rect" /\ radius = 0 /\ warp = 0
     /\ profile # "liquid" /\ width = height)
        => \A px, py \in 1..(width - 2) :
               /\ heightMap[py * width + px] = heightMap[py * width + (width - 1 - px)]
               /\ heightMap[py * width + px] = heightMap[(width - 1 - py) * width + px]

(* Two calls returned a surface; both called with the same arguments except *)
(* possibly the argument number k (3 radius, 4 bezel, 5 shape; 0 for none) *)
bothReturned(k) ==
    /\ pc = "done" /\ surfaceUrl # "" /\ prev # noCall
    /\ \A j \in (1..8) \ {k} : prev.args[j] = args[j]

(* The transition ring of a height field: the elements with 0 < height < 1 *)
ring(h) == {i \in DOMAIN h : h[i] # NaN /\ h[i] > 0 /\ h[i] < Scale}

C15_Original ==
    (/\ bothReturned(5) /\ radius = 0 /\ warp = 0 /\ ~isLiquid /\ bezel > 0)
        => \A i \in DOMAIN heightMap :
               (2 * rowOf(i) = height \/ 2 * colOf(i) = width)
                   => heightMap[i] = prev.heightMap[i]

(* C15 amended: for even width and height, radius = 0, warp = 0, a         *)
(* non-liquid profile, bezel > 0 and tension <= 0 the height field of the  *)
(* squircle equals the height field of the rect at the centre pixel        *)
(* (width/2, height/2), where both distances are -min(width, height)/2.    *)
C15_CentreAgrees ==
    (/\ bothReturned(5) /\ radius = 0 /\ warp = 0 /\ ~isLiquid /\ bezel > 0
     /\ tension <= 0)
        => \A i \in DOMAIN heightMap :
               (2 * rowOf(i) = height /\ 2 * colOf(i) = width)
                   => heightMap[i] = prev.heightMap[i]

C15_Witness ==
    /\ bothReturned(5) /\ radius = 0 /\ warp = 0 /\ ~isLiquid /\ bezel = 2 * Scale
    /\ tension <= 0 /\ width = 2 /\ height = 2 /\ shape = "squircle"
    /\ heightMap[3] = prev.heightMap[3]
    /\ heightMap[3] > 0 /\ heightMap[3] < Scale

(* C16: with warp <= 0 and a profile among flat, concave and convex two    *)
(* calls with the same arguments produce the same pixel buffer whatever    *)
(* their permutation tables are.                                           *)
C16_DeterministicWithoutNoise ==
    (bothReturned(0) /\ warp <= 0 /\ profile \in {"flat", "concave", "convex"})
        => encoded = prev.encoded

C16_Witness ==
    /\ bothReturned(0) /\ warp <= 0 /\ profile = "convex"
    /\ perm # prev.perm /\ encoded = prev.encoded
    /\ ring(heightMap) # {}

(* C17: for the rect the corner radius is clamped to min(width, height)/2: *)
(* with warp = 0 and a non-liquid profile two calls that differ only in    *)
(* radii >= min(width, height)/2 produce the same pixel buffer, and the    *)
(* half-extents width/2 - r and height/2 - r are never negative.           *)
C17_RadiusClamped ==
    /\ (width > 0 /\ height > 0) => (bx >= 0 /\ by >= 0)
    /\ (/\ bothReturned(3) /\ shape = "rect" /\ warp = 0 /\ ~isLiquid
        /\ 2 * radius >= Min(width, height) * Scale
        /\ 2 * prev.args[3] >= Min(width, height) * Scale)
           => encoded = prev.encoded

C17_Witness ==
    /\ bothReturned(3) /\ shape = "rect" /\ warp = 0 /\ ~isLiquid
    /\ width = 2 /\ height = MaxDim
    /\ prev.args[3] = Scale /\ radius = 3 * Scale
    /\ encoded = prev.encoded /\ ring(heightMap) # {}

(* C18: for the squircle the radius has no effect: with warp = 0 and a     *)
(* non-liquid profile two calls that differ only in radius produce the     *)
(* same pixel buffer.                                                      *)
C18_SquircleIgnoresRadius ==
    (bothReturned(3) /\ shape = "squircle" /\ warp = 0 /\ ~isLiquid)
        => encoded = prev.encoded

C18_Witness ==
    /\ bothReturned(3) /\ shape = "squircle" /\ warp = 0 /\ ~isLiquid
    /\ radius # prev.args[3] /\ width = MaxDim /\ height = MaxDim
    /\ encoded = prev.encoded /\ ring(heightMap) # {}

(* Number of writes to the height field by the time erosion has ended *)
heightWrites == IF tension > 0 THEN 2 * size ELSE size

(* C19: the stages run strictly in order: HeightProfiler writes all        *)
(* width*height heights before erosion reads one; erosion, if it runs,     *)
(* finishes before the packing loop reads a height; the height field is    *)
(* not written after erosion has ended; each of the width*height pixels    *)
(* gets its four channels written exactly once; the buffer is encoded      *)
(* exactly once, after the last pixel is packed.                           *)
C19_StagesInOrder ==
    /\ pc \in {"erode", "hpass"} => writes.heightMap = size /\ heightMap = profiled
    /\ pc \in {"profile", "erode", "hpass", "vpass"} => data = <<>> /\ writes.data = 0
    /\ afterErosion =>
           /\ writes.heightMap = heightWrites
           /\ writes.tempMap = IF tension > 0 THEN size ELSE 0
           /\ dirty = noDirty
    /\ pc = "pack" => writes.data = 4 * (y * width + x)
    /\ acc.op = "pack" =>
           acc.wr = {writes.data - 4, writes.data - 3, writes.data - 2, writes.data - 1}
    /\ pc = "encode" => writes.data = 4 * size /\ encoded = <<>>
    /\ encoded # <<>> =>
           pc = "done" /\ encoded = data /\ writes.data = 4 * size

C19_Witness ==
    /\ pc = "done" /\ surfaceUrl # "" /\ tension > 0 /\ width = MaxDim /\ height = 2
    /\ writes = [heightMap |-> 4 * MaxDim, tempMap |-> 2 * MaxDim, data |-> 8 * MaxDim]
    /\ encoded = data

(* The pixel the packing loop wrote in its last iteration *)
packedIdx == (CHOOSE b \in acc.wr : b % 4 = 0) \div 4

(* The channel value for v in [-1, 1] or [0, 1], mapped to 0 .. 255 *)
toByte(v) == ToUint8Clamped(v * 255)

(* C20 as stated: for every pixel dx = (h[max(0,x-1), y] -                  *)
(* h[min(width-1,x+1), y]) * 4, dy likewise along y, and                   *)
(* len = sqrt(dx^2 + dy^2 + 1) >= 1; R and G hold dx/len and dy/len        *)
(* mapped from [-1,1] to 0..255 and B holds the height mapped from [0,1]   *)
(* to 0..255; a pixel whose clamped left and right (up and down)           *)
(* neighbours have equal height gets the neutral mid value in R (G).       *)
C20_Original ==
    acc.op = "pack" =>
        LET px == colOf(packedIdx)
            py == rowOf(packedIdx)
            hl == heightMap[py * width + (IF px = 0 THEN 0 ELSE px - 1)]
            hr == heightMap[py * width + (IF px = width - 1 THEN px ELSE px + 1)]
            hu == heightMap[(IF py = 0 THEN 0 ELSE py - 1) * width + px]
            hd == heightMap[(IF py = height - 1 THEN py ELSE py + 1) * width + px]
            dx == 4 * (hl - hr)
            dy == 4 * (hu - hd)
            len == Sqrt(Mul(dx, dx) + Mul(dy, dy) + Scale)
            mid == toByte(Scale \div 2)
        IN  /\ lastDen = {len} /\ len >= Scale
            /\ data[4 * packedIdx] = toByte(Mul(Div(dx, len), Scale \div 2) + Scale \div 2)
            /\ data[4 * packedIdx + 1] = toByte(Mul(Div(dy, len), Scale \div 2) + Scale \div 2)
            /\ data[4 * packedIdx + 2] = toByte(heightMap[packedIdx])
            /\ hl = hr => data[4 * packedIdx] = mid
            /\ hu = hd => data[4 * packedIdx + 1] = mid

----------------------------------------------------------------------------
(* Properties of GlassBubble *)

(* The tuple of the current render *)
current == tuple(dimensions, props)

(* C21: a change of intensity, blur or debug alone schedules no generation *)
(* and leaves mapUrl as it is; a resize notification whose rounded width   *)
(* and height equal the current dimensions changes nothing; a change of    *)
(* width, height, radius, bezel or shape that leaves both dimensions       *)
(* non-zero schedules a generation for the new tuple.                      *)
C21_RegenerationKeyedOnTuple ==
    [][/\ (props' # props /\ tuple(dimensions', props') = current) =>
              UNCHANGED <<timers, cleanup, mapUrl>>
       /\ \A rw \in RawSizes, rh \in RawSizes :
              (/\ ResizeNotify(rw, rh)
               /\ MathRound(rw) = dimensions.width
               /\ MathRound(rh) = dimensions.height) => UNCHANGED vars
       /\ (/\ tuple(dimensions', props') # current
           /\ dimensions'.width # 0 /\ dimensions'.height # 0) =>
              \E t \in timers' \ timers : t.args = tuple(dimensions', props')
      ]_vars

(* A generation is pending for a measured bubble whose intensity, blur and *)
(* debug props were changed                                                *)
C21_Witness ==
    /\ timers # {} /\ changes >= 2
    /\ props.intensity = 40 /\ props.blur = 0 /\ props.debug
    /\ dimensions.width = 2 /\ dimensions.height = 2

(* C22: in components/Package/GlassBubble the generation is debounced:     *)
(* when width, height, radius or bezel change several times in quick       *)
(* succession, generateDisplacementMap is invoked once, not once per       *)
(* change.                                                                 *)
C22_Original == burst >= 2 => invoked <= 1

----------------------------------------------------------------------------
(* Properties of MetaGlassApp *)

(* C23: after any sequence of addLog calls the log list holds at least 1   *)
(* and at most 50 entries, namely the most recent min(n + 1, 50) of the    *)
(* initial entry and the n added ones, in the order of their addition;     *)
(* adding to a full list drops exactly the oldest entry.                   *)
C23_LogsKeepMostRecent ==
    /\ [](/\ Len(logs) >= 1 /\ Len(logs) <= 50
          /\ Len(logs) = Min(added + 1, 50)
          /\ \A i \in 1..Len(logs) : logs[i] = added + 1 - Len(logs) + i)
    /\ [][(added' = added + 1 /\ Len(logs) = 50) =>
              logs' = Append(Tail(logs), added + 2)]_vars

(* Two entries were dropped from a full list *)
C23_Witness == added = 51 /\ Len(logs) = 50 /\ logs[1] = 3 /\ logs[50] = 52

----------------------------------------------------------------------------
(* Properties of GlassBubble, continued *)

(* The tuple the last call of generateGlassMaps was made with *)
generatedFrom ==
    [width |-> width, height |-> height, radius |-> radius, bezel |-> bezel,
     shape |-> shape]

C25_FinalTupleGenerated ==
    <>[]((mounted /\ dimensions.width # 0 /\ dimensions.height # 0) =>
             /\ timers = {}
             /\ pc = "done" /\ generatedFrom = current
             /\ mapUrl = surfaceUrl)

(* The map of the tuple reached by the last change is committed *)
C25_Witness ==
    /\ mounted /\ changes >= 3 /\ timers = {}
    /\ pc = "done" /\ generatedFrom = current
    /\ mapUrl = surfaceUrl /\ mapUrl # ""

----------------------------------------------------------------------------
(* Properties of MetaGlassApp, continued *)

(* The largest zIndex of the window list l *)
largest(l) == CHOOSE z \in {l[i].zIndex : i \in DOMAIN l} :
                  \A i \in DOMAIN l : l[i].zIndex <= z

(* Window i of the current list lies strictly above every other window *)
strictlyOnTop(i) ==
    \A j \in DOMAIN windows \ {i} : windows[i].zIndex > windows[j].zIndex

(* C26: after focusWindow(id) for an existing id that window lies strictly *)
(* above every other window, every other zIndex and every isOpen flag is   *)
(* unchanged, and the list is unchanged if the window already had the      *)
(* largest zIndex; with an id that names no window no zIndex and no isOpen *)
(* changes.                                                                *)
C26_FocusRaisesOnlyTarget ==
    called.op = "focus" =>
        \A i \in DOMAIN windows :
            /\ windows[i].isOpen = before[i].isOpen
            /\ windows[i].id # called.id => windows[i].zIndex = before[i].zIndex
            /\ windows[i].id = called.id =>
                   /\ strictlyOnTop(i)
                   /\ before[i].zIndex = largest(before) => windows = before

(* The console window was focused from the bottom, and focused again *)
C26_Witness ==
    /\ called = [op |-> "focus", id |-> "console"]
    /\ windows[3].zIndex = 11 /\ before = windows

(* C27: in every state reached from the initial window list by toggleWindow *)
(* and focusWindow calls the zIndex values are pairwise distinct, exactly   *)
(* one window is top-most, and no zIndex ever decreases.                    *)
C27_DistinctMonotoneZ ==
    /\ [](/\ \A i, j \in DOMAIN windows :
                 i # j => windows[i].zIndex # windows[j].zIndex
          /\ Cardinality({i \in DOMAIN windows : windows[i].zIndex = maxZ}) = 1)
    /\ [][\A i \in DOMAIN windows : windows'[i].zIndex >= windows[i].zIndex]_vars

(* Every window was raised once: code, controls, console *)
C27_Witness ==
    /\ windows[2].zIndex = 11 /\ windows[1].zIndex = 12 /\ windows[3].zIndex = 13
    /\ windows[2].isOpen

(* C28: toggleWindow(id) for an existing id flips the isOpen of that       *)
(* window only; a window that opens gets the previous largest zIndex + 1   *)
(* and lies strictly on top, a window that closes keeps its zIndex; every  *)
(* other window is unchanged; an id that names no window leaves the list   *)
(* unchanged; two consecutive toggleWindow(id) restore every isOpen flag.  *)
C28_ToggleFlipsOnlyTarget ==
    /\ [](called.op = "toggle" =>
              \A i \in DOMAIN windows :
                  IF windows[i].id = called.id
                  THEN /\ windows[i].isOpen = ~before[i].isOpen
                       /\ windows[i].isOpen =>
                              /\ windows[i].zIndex = largest(before) + 1
                              /\ strictlyOnTop(i)
                       /\ ~windows[i].isOpen => windows[i].zIndex = before[i].zIndex
                  ELSE windows[i] = before[i])
    /\ [][(called.op = "toggle" /\ ToggleWindow(called.id)) =>
              \A i \in DOMAIN windows : windows'[i].isOpen = before[i].isOpen]_vars

(* The controls window was closed and opened again by two toggles *)
C28_Witness ==
    /\ called = [op |-> "toggle", id |-> "controls"]
    /\ windows[1].isOpen /\ ~before[1].isOpen
    /\ windows[1].zIndex = 11 /\ before[1].zIndex = 10

----------------------------------------------------------------------------
(* Properties of generateGlassMaps, continued *)

(* Sample coordinates of noise2d: negative, fractional and beyond 255 *)
NoiseSamples ==
    {-300 * Scale - 1, -1, Scale \div 2, 255 * Scale + 999, 1000 * Scale}

(* C29: every array access of generateGlassMaps is in bounds: the six perm *)
(* lookups of noise2d use indices in 0 .. 511 for every sample coordinate, *)
(* negative ones included, and every read or write of the height field,    *)
(* the intermediate buffer and the pixel buffer uses an index in           *)
(* 0 .. width * height - 1, resp. 0 .. width * height * 4 - 1.             *)
C29_AccessesInBounds ==
    /\ perm # <<>> =>
           \A sx \in NoiseSamples, sy \in NoiseSamples :
               \A k \in 1..6 : noiseIdx(sx, sy)[k] \in 0..511
    /\ acc.rd \subseteq 0..(size - 1)
    /\ acc.wrBuf \in {"heightMap", "tempMap"} => acc.wr \subseteq 0..(size - 1)
    /\ acc.wrBuf = "data" => acc.wr \subseteq 0..(size * 4 - 1)

(* The last pixel of an eroded liquid 2 x 2 map is packed *)
C29_Witness ==
    /\ width = 2 /\ height = 2 /\ isLiquid /\ tension > 0
    /\ acc.op = "pack" /\ acc.wr = {12, 13, 14, 15}
    /\ acc.rd = {1, 2, 3}

(* C30: in every reachable state of GlassBubble the backdrop-filter names  *)
(* url(#filterId) only if the filter element is rendered: whenever mapUrl  *)
(* is non-empty the filter definition is non-null and part of the output,  *)
(* also after the dimensions change to zero following a generation.        *)
C30_Original == filterReferenced => filterRendered

====
